---------------------------- MODULE Spec2Model ----------------------------
(***************************************************************************)
(* A model of the recurrent-visual-attention repository:                   *)
(*   - modules.py : retina (foveate / extract_patch), GlimpseNet,          *)
(*                  core_network, LocationNet                              *)
(*   - trainer.py : Trainer.train, train_one_epoch, validate               *)
(*                                                                         *)
(* Tensors are modelled by what the claims read of them: their shape, the  *)
(* index ranges they were sliced from, and (for the networks) the set of   *)
(* graph leaves their autograd graph reaches.                              *)
(***************************************************************************)
EXTENDS Integers, Sequences, FiniteSets, TLC

VARIABLES
    \* ---- retina (modules.py) ----
    patch_size,     \* retina.patch_size
    num_patches,    \* retina.num_patches
    scale,          \* retina.scale, the rational <<numerator, denominator>>
    imgShape,       \* retina.imgShape: <<>> while the attribute is not set, else <<H, W>>
    rpc,            \* "idle" | "returned": a foveate call has returned to its caller
    x,              \* shape of the image batch of the last call [B, C, H, W]
    l,              \* locations of the last call: one <<l0, l1>> per batch element
    glimpse,        \* what the last foveate call produced
    \* ---- GlimpseNet / core_network / LocationNet (modules.py) ----
    g_t,            \* glimpse feature vector
    h_t,            \* hidden state
    mu,             \* noise free location
    l_t,            \* sampled location
    steps,          \* number of LocationNet.forward calls made
    \* ---- Trainer (trainer.py) ----
    watch,          \* Trainer.watch
    stop_training,  \* Trainer.stop_training
    start_epoch,    \* train()'s argument
    epochs,         \* train()'s argument
    callbacks,      \* number of callbacks handed to train()
    epoch,          \* the loop variable of train()
    tpc,            \* position inside train()
    cbk,            \* index of the next callback of the on_epoch_end loop
    epoch_log,      \* epoch_log of the running iteration
    val_log,        \* val_log of the running iteration
    trace           \* the calls train() has made, in order

rvars == <<patch_size, num_patches, scale, imgShape, rpc, x, l, glimpse>>
nvars == <<g_t, h_t, mu, l_t, steps>>
tvars == <<watch, stop_training, start_epoch, epochs, callbacks, epoch, tpc,
           cbk, epoch_log, val_log, trace>>
vars == <<rvars, nvars, tvars>>

--------------------------------------------------------------------------
(* Bounds of the model *)

MaxPatchSize == 2
MaxNumPatches == 3

\* image heights and widths, channel counts and batch sizes
Dims == {2, 3}
Channels == {1, 2}

\* scale factors > 1, as <<numerator, denominator>>: 2 and 1.5
Scales == {<<2, 1>>, <<3, 2>>}
\* one location coordinate; -1..1 is the documented range, -2 and 2 lie outside
LocGrid == {-2, -1, 0, 1, 2}
BatchSizes == {1, 2}

Min(a, b) == IF a < b THEN a ELSE b
Max(a, b) == IF a > b THEN a ELSE b

--------------------------------------------------------------------------
(* retina *)

\* float -> integer conversion of n/d (d > 0): int() and .long() truncate
\* toward zero
Trunc(n, d) == IF n >= 0 THEN n \div d ELSE -((-n) \div d)

\* one entry of coords = (0.5 * ((l.data + 1.0) * self.imgShape)).long()
Coord(lc, dim) == Trunc((lc + 1) * dim, 2)

\* self.imgShape after "if not hasattr(self, 'imgShape')"
CachedShape(cache, xs) == IF cache = <<>> THEN <<xs.H, xs.W>> ELSE cache

\* half the size rounded up: (size + 1)//2
PadRoundedUp(size) == (size + 1) \div 2

\* nn.ConstantPad2d(size//2, 0.)
PadOf(size) == size \div 2

\* the scale truncated before the product: int(self.scale) * size
NextSizeTruncScale(sc, size) == Trunc(sc[1], sc[2]) * size

\* size = int(self.scale * size)
NextSize(sc, size) == Trunc(sc[1] * size, sc[2])

\* Python's a[from:to] on an axis of length n: negative indices count from
\* the end, both ends are clipped to the axis
SliceStart(from, n) == IF from < 0 THEN Max(from + n, 0) ELSE Min(from, n)
SliceStop(to, n) == IF to < 0 THEN Max(to + n, 0) ELSE Min(to, n)
SliceLen(from, to, n) ==
    IF SliceStop(to, n) > SliceStart(from, n)
    THEN SliceStop(to, n) - SliceStart(from, n) ELSE 0

\* which entry of coords gives the column start (from_x) and the row start
\* (from_y): from_x, from_y = coords[:, 0], coords[:, 1]
XIndex == 1
YIndex == 2

\* the slice x[i, :, from_y[i]:to_y[i], from_x[i]:to_x[i]] of one batch element
Window(shape, xs, li, size) ==
    LET pad == PadOf(size)
        PH == xs.H + 2 * pad
        PW == xs.W + 2 * pad
        coords == <<Coord(li[1], shape[1]), Coord(li[2], shape[2])>>
        from_x == coords[XIndex]
        from_y == coords[YIndex]
        to_x == from_x + size
        to_y == from_y + size
    IN  [pad |-> pad, PH |-> PH, PW |-> PW,
         from_x |-> from_x, to_x |-> to_x, from_y |-> from_y, to_y |-> to_y,
         rows |-> SliceLen(from_y, to_y, PH),
         cols |-> SliceLen(from_x, to_x, PW),
         \* where the slice starts in the coordinates of the unpadded image
         row0 |-> SliceStart(from_y, PH) - pad,
         col0 |-> SliceStart(from_x, PW) - pad]

\* retina.extract_patch up to its last line: the list `patch`, one slice per
\* batch element
ExtractPatch(cache, xs, ls, size) ==
    [b \in 1..xs.B |-> Window(CachedShape(cache, xs), xs, ls[b], size)]

\* torch.cat(patch) raises unless every slice has the same shape
CatOk(p) == \A b \in DOMAIN p : p[b].rows = p[1].rows /\ p[b].cols = p[1].cols

\* the sizes the first loop of foveate asks for: size, int(scale*size), ...
RECURSIVE Sizes(_, _, _)
Sizes(sc, size, n) ==
    IF n = 0 THEN <<>> ELSE <<size>> \o Sizes(sc, NextSize(sc, size), n - 1)

\* the first loop of foveate: patches.append(self.extract_patch(x, l, size))
ExtractLoop(cache, xs, ls, sizes) ==
    [i \in 1..Len(sizes) |-> ExtractPatch(cache, xs, ls, sizes[i])]

\* how many extract_patch calls the first loop makes: it ends at the first
\* call that raises
Requested(patches) ==
    IF \A i \in DOMAIN patches : CatOk(patches[i]) THEN Len(patches)
    ELSE CHOOSE i \in DOMAIN patches :
             ~CatOk(patches[i]) /\ \A j \in 1..(i - 1) : CatOk(patches[j])

\* F.avg_pool2d(patch, k) on a rows x cols patch: a kernel of 0 and an input
\* smaller than the kernel are errors, else floor division by the kernel
PoolOk(rows, cols, k) == k > 0 /\ rows >= k /\ cols >= k
Pooled(n, k) == n \div k

\* num_patches = patches[i].shape[-1] // self.patch_size
Kernel(ps, cols) == cols \div ps

\* patch i after the resizing loop of foveate (the first patch is left as it
\* is); w is the slice of the first batch element, which gives the shape
Resized(ps, w, i) ==
    IF i = 1 THEN [ok |-> TRUE, rows |-> w.rows, cols |-> w.cols]
    ELSE IF PoolOk(w.rows, w.cols, Kernel(ps, w.cols))
         THEN [ok |-> TRUE, rows |-> Pooled(w.rows, Kernel(ps, w.cols)),
                            cols |-> Pooled(w.cols, Kernel(ps, w.cols))]
         ELSE [ok |-> FALSE, rows |-> 0, cols |-> 0]

\* the second loop of foveate
ResizeLoop(ps, patches) ==
    [i \in DOMAIN patches |-> Resized(ps, patches[i][1], i)]

\* torch.cat(patches, 1) and patches.view(patches.shape[0], -1): the shapes
\* must agree, and view(B, -1) of a tensor without elements raises
Concat(np, xs, sizes, patches, resized) ==
    IF /\ Requested(patches) = np
       /\ CatOk(patches[np])
       /\ \A i \in 1..np : resized[i].ok
       /\ CatOk(resized)
       /\ resized[1].rows * resized[1].cols > 0
    THEN [ok |-> TRUE,
          shape |-> <<xs.B, np * xs.C * resized[1].rows * resized[1].cols>>,
          requested |-> sizes, patches |-> patches, resized |-> resized]
    ELSE [ok |-> FALSE,
          shape |-> <<>>,
          requested |-> SubSeq(sizes, 1, Requested(patches)),
          patches |-> SubSeq(patches, 1, Requested(patches)),
          resized |-> IF Requested(patches) = np /\ CatOk(patches[np])
                      THEN resized ELSE <<>>]

FoveateResize(ps, np, xs, sizes, patches) ==
    Concat(np, xs, sizes, patches, ResizeLoop(ps, patches))

FoveateExtract(cache, ps, np, xs, ls, sizes) ==
    FoveateResize(ps, np, xs, sizes, ExtractLoop(cache, xs, ls, sizes))

\* retina.foveate.  An error raised anywhere (torch.cat on unequal shapes in
\* extract_patch or in foveate, avg_pool2d, view) ends the call with
\* ok = FALSE; requested lists the sizes asked of extract_patch before that.
Foveate(cache, ps, np, sc, xs, ls) ==
    FoveateExtract(cache, ps, np, xs, ls, Sizes(sc, ps, np))

NoCall == [ok |-> FALSE, shape |-> <<>>, requested |-> <<>>, patches |-> <<>>,
           resized |-> <<>>]
NoImage == [B |-> 0, C |-> 0, H |-> 0, W |-> 0]

Images == [B : BatchSizes, C : Channels, H : Dims, W : Dims]
Locations(b) == [1..b -> LocGrid \X LocGrid]

\* retina.__init__
RetinaInit ==
    /\ patch_size \in 1..MaxPatchSize
    /\ num_patches \in 1..MaxNumPatches
    /\ scale \in Scales
    /\ imgShape = <<>>
    /\ rpc = "idle"
    /\ x = NoImage
    /\ l = <<>>
    /\ glimpse = NoCall

\* a call retina.foveate(x, l), extract_patch's write of self.imgShape included
FoveateCall(xs, ls) ==
    /\ rpc = "idle"
    /\ x' = xs
    /\ l' = ls
    /\ glimpse' = Foveate(imgShape, patch_size, num_patches, scale, xs, ls)
    /\ imgShape' = CachedShape(imgShape, xs)
    /\ rpc' = "returned"
    /\ UNCHANGED <<patch_size, num_patches, scale>>

\* the caller is done with the glimpse (GlimpseNet.forward returns)
FoveateReturn ==
    /\ rpc = "returned"
    /\ rpc' = "idle"
    /\ x' = NoImage
    /\ l' = <<>>
    /\ glimpse' = NoCall
    /\ UNCHANGED <<patch_size, num_patches, scale, imgShape>>

NetQuiet == g_t = {} /\ h_t = {} /\ mu = {} /\ l_t = {} /\ steps = 0
TrainerQuiet ==
    /\ watch = <<>> /\ stop_training = FALSE /\ start_epoch = 0 /\ epochs = 0
    /\ callbacks = 0 /\ epoch = 0 /\ tpc = "done" /\ cbk = 0
    /\ epoch_log = <<>> /\ val_log = <<>> /\ trace = <<>>
RetinaQuiet ==
    /\ patch_size = 1 /\ num_patches = 1 /\ scale = <<2, 1>> /\ imgShape = <<>>
    /\ rpc = "idle" /\ x = NoImage /\ l = <<>> /\ glimpse = NoCall

InitRetina == RetinaInit /\ NetQuiet /\ TrainerQuiet

NextRetina ==
    \/ rpc = "idle" /\ \E xs \in Images : \E ls \in Locations(xs.B) :
          FoveateCall(xs, ls) /\ UNCHANGED <<nvars, tvars>>
    \/ FoveateReturn /\ UNCHANGED <<nvars, tvars>>

SpecRetina == InitRetina /\ [][NextRetina]_vars

--------------------------------------------------------------------------
(* GlimpseNet, core_network, LocationNet: the autograd graph.              *)
(* A tensor is the set of graph leaves (parameters, inputs that require a  *)
(* gradient) that backpropagation from it reaches.                         *)

MaxSteps == 6

GlimpseParams == {"glimpse.fc1", "glimpse.fc2", "glimpse.fc3", "glimpse.fc4"}
CoreParams == {"core.i2h", "core.h2h"}
LocParams == {"loc.fc"}

\* the image batch: a plain input, or one that requires a gradient
ImageLeaves == {{}, {"x"}}

\* nn.Linear: the output reaches the layer's parameters and what the input reaches
Linear(params, t) == params \cup t
\* F.relu, F.tanh: elementwise, the graph goes on
Relu(t) == t
Tanh(t) == t
\* a + b
Add(a, b) == a \cup b
\* Variable(noise.float()): a new leaf that requires no gradient
Noise == {}
\* l.data in extract_patch: the location's values without its graph
Data(t) == {}

\* the sampled location handed on with its graph
KeepGraph(t) == t

\* l_t.detach()
Detach(t) == {}

\* retina.foveate as an autograd operation: slices and averages of x, placed
\* by l.data
FoveateGraph(xg, lg) == xg \cup Data(lg)

\* core_network.init_state
InitState ==
    /\ h_t' = {}
    /\ l_t' = {}
    /\ UNCHANGED <<g_t, mu, steps>>

\* GlimpseNet.forward(x_t, l_t)
GlimpseForward(xg) ==
    /\ g_t' = Relu(Add(Linear({"glimpse.fc3"}, Relu(Linear({"glimpse.fc1"}, FoveateGraph(xg, l_t)))),
                       Linear({"glimpse.fc4"}, Relu(Linear({"glimpse.fc2"}, l_t)))))
    /\ UNCHANGED <<h_t, mu, l_t, steps>>

\* core_network.forward(g_t, h_t_prev), called once a glimpse vector exists
CoreForward ==
    /\ g_t # {}
    /\ h_t' = Relu(Add(Linear({"core.i2h"}, g_t), Linear({"core.h2h"}, h_t)))
    /\ UNCHANGED <<g_t, mu, l_t, steps>>

\* LocationNet.forward(h_t)
LocationForward ==
    /\ steps < MaxSteps
    /\ mu' = Tanh(Linear(LocParams, h_t))
    /\ l_t' = Detach(Tanh(Add(mu', Noise)))
    /\ steps' = steps + 1
    /\ UNCHANGED <<g_t, h_t>>

InitNet == NetQuiet /\ RetinaQuiet /\ TrainerQuiet

NextNet ==
    \/ InitState /\ UNCHANGED <<rvars, tvars>>
    \/ \E xg \in ImageLeaves : GlimpseForward(xg) /\ UNCHANGED <<rvars, tvars>>
    \/ CoreForward /\ UNCHANGED <<rvars, tvars>>
    \/ LocationForward /\ UNCHANGED <<rvars, tvars>>

SpecNet == InitNet /\ [][NextNet]_vars

--------------------------------------------------------------------------
(* Trainer *)

MaxEpochs == 3
MaxCallbacks == 2

\* the `watch` lists handed to Trainer.__init__
WatchArgs == {<<>>, <<"acc">>, <<"loss", "acc">>, <<"acc", "loss">>}

Range(q) == {q[i] : i \in DOMAIN q}

\* if 'loss' not in watch: watch.insert(0, 'loss')
WithLoss(w) == IF "loss" \in Range(w) THEN w ELSE <<"loss">> \o w

\* {name: meter.avg for name, meter in epoch_log.items()}; an average is
\* modelled by what it is the average of
TrainLog(w, e) == [name \in Range(w) |-> <<"train", name, e>>]

\* {'val_'+name: meter.avg for name, meter in val_log.items()}
ValKeys(w) == {"val_" \o name : name \in Range(w)}
ValLog(w, e) ==
    [key \in ValKeys(w) |->
        <<"val", CHOOSE name \in Range(w) : key = "val_" \o name, e>>]

\* epoch_log.update(val_log)
Update(d, u) ==
    [key \in DOMAIN d \cup DOMAIN u |-> IF key \in DOMAIN u THEN u[key] ELSE d[key]]

\* what a callback may leave in trainer.stop_training
CallbackSets(n) == IF n > 0 THEN BOOLEAN ELSE {stop_training}

\* Trainer.__init__ and the entry of train()
TrainerInit ==
    /\ watch \in {WithLoss(w) : w \in WatchArgs}
    /\ stop_training = FALSE
    /\ start_epoch \in 0..MaxEpochs
    /\ epochs \in 0..MaxEpochs
    /\ callbacks \in 0..MaxCallbacks
    /\ epoch = start_epoch
    /\ tpc = "head"
    /\ cbk = 0
    /\ epoch_log = <<>>
    /\ val_log = <<>>
    /\ trace = <<>>

\* the loop goes on without looking at stop_training
LoopHeadNoStop ==
    /\ tpc = "head"
    /\ tpc' = IF epoch >= epochs THEN "done" ELSE "train"
    /\ UNCHANGED <<watch, stop_training, start_epoch, epochs, callbacks, epoch,
                   cbk, epoch_log, val_log, trace>>

\* for epoch in range(start_epoch, epochs): if self.stop_training: return
LoopHead ==
    /\ tpc = "head"
    /\ tpc' = IF epoch >= epochs \/ stop_training THEN "done" ELSE "train"
    /\ UNCHANGED <<watch, stop_training, start_epoch, epochs, callbacks, epoch,
                   cbk, epoch_log, val_log, trace>>

\* epoch_log = self.train_one_epoch(epoch, train_loader, callbacks=callbacks);
\* its on_batch_end callbacks may write trainer.stop_training
TrainOneEpoch ==
    /\ tpc = "train"
    /\ epoch_log' = TrainLog(watch, epoch)
    /\ stop_training' \in CallbackSets(callbacks)
    /\ trace' = Append(trace, <<"train_one_epoch", epoch>>)
    /\ tpc' = "validate"
    /\ UNCHANGED <<watch, start_epoch, epochs, callbacks, epoch, cbk, val_log>>

\* val_log = self.validate(epoch, val_loader), the two log lines and
\* epoch_log.update(val_log)
Validate ==
    /\ tpc = "validate"
    /\ val_log' = ValLog(watch, epoch)
    /\ epoch_log' = Update(epoch_log, val_log')
    /\ trace' = Append(trace, <<"validate", epoch>>)
    /\ cbk' = 1
    /\ tpc' = "callbacks"
    /\ UNCHANGED <<watch, stop_training, start_epoch, epochs, callbacks, epoch>>

\* for cbk in callbacks: cbk.on_epoch_end(epoch, epoch_log)
OnEpochEnd ==
    /\ tpc = "callbacks"
    /\ cbk <= callbacks
    /\ trace' = Append(trace, <<"on_epoch_end", epoch, cbk, epoch_log>>)
    /\ stop_training' \in BOOLEAN
    /\ cbk' = cbk + 1
    /\ UNCHANGED <<watch, start_epoch, epochs, callbacks, epoch, tpc, epoch_log,
                   val_log>>

\* the callback loop is exhausted: on to the next epoch of the range
NextEpoch ==
    /\ tpc = "callbacks"
    /\ cbk > callbacks
    /\ epoch' = epoch + 1
    /\ tpc' = "head"
    /\ UNCHANGED <<watch, stop_training, start_epoch, epochs, callbacks, cbk,
                   epoch_log, val_log, trace>>

InitTrainer == TrainerInit /\ RetinaQuiet /\ NetQuiet

NextTrainer ==
    \/ LoopHead /\ UNCHANGED <<rvars, nvars>>
    \/ TrainOneEpoch /\ UNCHANGED <<rvars, nvars>>
    \/ Validate /\ UNCHANGED <<rvars, nvars>>
    \/ OnEpochEnd /\ UNCHANGED <<rvars, nvars>>
    \/ NextEpoch /\ UNCHANGED <<rvars, nvars>>

SpecTrainer == InitTrainer /\ [][NextTrainer]_vars

--------------------------------------------------------------------------
(* Properties of the retina *)

Called == rpc = "returned"
InRange(ls) == \A b \in DOMAIN ls : ls[b][1] \in -1..1 /\ ls[b][2] \in -1..1
Clamp(c) == Max(-1, Min(1, c))
Clamped(ls) == [b \in DOMAIN ls |-> <<Clamp(ls[b][1]), Clamp(ls[b][2])>>]

RECURSIVE Pow(_, _)
Pow(a, n) == IF n = 0 THEN 1 ELSE a * Pow(a, n - 1)

\* what the caller can see of a call: an error, or the shape of the tensor and
\* the region of the image each part of it was read from
Output(g) ==
    IF ~g.ok THEN <<"error">>
    ELSE <<"tensor", g.shape,
           [i \in DOMAIN g.patches |->
              [b \in DOMAIN g.patches[i] |->
                 <<g.patches[i][b].row0, g.patches[i][b].col0,
                   g.patches[i][b].rows, g.patches[i][b].cols>>]]>>

\* every slice taken by the call
Slices ==
    UNION {{<<i, b>> : b \in DOMAIN glimpse.patches[i]} : i \in DOMAIN glimpse.patches}
Slice(s) == glimpse.patches[s[1]][s[2]]

\* C1: for every location in [-1,1]^2 foveate returns a tensor of shape
\* (batch, num_patches * channels * patch_size^2).
C1_ShapeExact ==
    (Called /\ InRange(l)) =>
        /\ glimpse.ok
        /\ glimpse.shape = <<x.B, num_patches * x.C * patch_size * patch_size>>

\* C2: for every location in [-1,1]^2 the row range [from_y, to_y) and the
\* column range [from_x, to_x) of every slice lie inside the padded image.
C2_SliceInsideBuffer ==
    (Called /\ InRange(l)) =>
        \A s \in Slices :
            /\ 0 <= Slice(s).from_y /\ Slice(s).to_y <= Slice(s).PH
            /\ 0 <= Slice(s).from_x /\ Slice(s).to_x <= Slice(s).PW

\* C3: whatever calls were made before on the instance, foveate returns what
\* a freshly constructed retina of the same configuration returns.
C3_SameAsFresh ==
    Called =>
        Output(glimpse) = Output(Foveate(<<>>, patch_size, num_patches, scale, x, l))

\* C5: after the resizing loop every patch is patch_size x patch_size.
C5_ResizedToPatchSize ==
    (Called /\ InRange(l)) =>
        /\ Len(glimpse.resized) = num_patches
        /\ \A i \in DOMAIN glimpse.resized :
              /\ glimpse.resized[i].ok
              /\ glimpse.resized[i].rows = patch_size
              /\ glimpse.resized[i].cols = patch_size

C8_ClampOrReject ==
    (Called /\ ~InRange(l)) =>
        \/ ~glimpse.ok
        \/ Output(glimpse) =
              Output(Foveate(imgShape, patch_size, num_patches, scale, x, Clamped(l)))

\* C9: the row range starts at the coordinate scaled by the image height, the
\* column range at the one scaled by the image width, and on a non-square
\* image every slice is a full size x size window.
C9_AxisOrder ==
    (Called /\ InRange(l) /\ imgShape = <<x.H, x.W>>) =>
        \A s \in Slices :
            /\ Slice(s).from_y = Coord(l[s[2]][YIndex], x.H)
            /\ Slice(s).from_x = Coord(l[s[2]][XIndex], x.W)
            /\ x.H # x.W =>
                  /\ Slice(s).rows = glimpse.requested[s[1]]
                  /\ Slice(s).cols = glimpse.requested[s[1]]


--------------------------------------------------------------------------
(* Properties of LocationNet *)

\* C4: LocationNet.forward returns a mu that reaches the location layer's
\* parameters and everything h_t reaches, and an l_t that reaches nothing;
\* so a glimpse computed from l_t reaches no parameter of the location or
\* core network.
C4_SampleDetached ==
    /\ [][steps' = steps + 1 =>
            /\ LocParams \subseteq mu'
            /\ h_t \subseteq mu'
            /\ l_t' = {}]_vars
    /\ [](g_t \cap (LocParams \cup CoreParams) = {})

C4_Witness ==
    /\ steps >= 2
    /\ {"loc.fc", "core.h2h", "core.i2h", "glimpse.fc2"} \subseteq mu
    /\ l_t = {}
    /\ "glimpse.fc2" \in g_t

--------------------------------------------------------------------------
(* Properties of Trainer.train *)

\* calls made per epoch: train_one_epoch, validate, one on_epoch_end per callback
PerEpoch == 2 + callbacks

\* the calls of the running iteration made so far
Stage ==
    CASE tpc = "validate" -> 1
      [] tpc = "callbacks" -> 1 + cbk
      [] OTHER -> 0

\* the log an on_epoch_end call of epoch e must be handed
GoodLog(log, e) ==
    /\ DOMAIN log = Range(watch) \cup {"val_" \o name : name \in Range(watch)}
    /\ \A name \in Range(watch) :
          /\ log[name] = <<"train", name, e>>
          /\ log["val_" \o name] = <<"val", name, e>>

\* the p-th call of train() is the call the order train_one_epoch ->
\* validate -> on_epoch_end (callbacks in list order) puts there, for the
\* epochs start_epoch, start_epoch + 1, ...
InOrder(p) ==
    LET e == start_epoch + (p - 1) \div PerEpoch
        j == (p - 1) % PerEpoch
    IN  /\ e < epochs
        /\ trace[p][2] = e
        /\ j = 0 => trace[p] = <<"train_one_epoch", e>>
        /\ j = 1 => trace[p] = <<"validate", e>>
        /\ j > 1 => /\ trace[p][1] = "on_epoch_end"
                    /\ trace[p][3] = j - 1
                    /\ GoodLog(trace[p][4], e)

EpochOrder ==
    /\ \A p \in DOMAIN trace : InOrder(p)
    /\ Len(trace) = PerEpoch * (epoch - start_epoch) + Stage

==========================================================================
